---- MODULE Spec2Model ----
(***************************************************************************)
(* A model of the configuration layer of telegraf-solaris:                 *)
(*   config.go      Config (LoadConfig, LoadDirectory, ListTags),          *)
(*                  parseFile's environment substitution, the plugin      *)
(*                  registries, Duration.UnmarshalTOML                     *)
(*   part_000       ValueParser.Parse                                      *)
(* Byte strings are sequences of one-character strings.  Durations are     *)
(* counted in milliseconds (Go counts nanoseconds); the duration tokens    *)
(* of the model carry at most three fractional digits, so no token loses   *)
(* precision by this.                                                      *)
(***************************************************************************)
EXTENDS Integers, Sequences, FiniteSets, TLC

VARIABLES
  pc,          \* the position of the operation in progress
  Tags,        \* Config.Tags
  Agent,       \* Config.Agent
  history,     \* the LoadConfig calls made so far: the file each read, its error
  before,      \* Tags and Agent as they were when the last LoadConfig call began
  fileText,    \* parseFile: the bytes of the file on disk
  env,         \* parseFile: the process environment (name -> value)
  contents,    \* parseFile: the local `contents`
  env_vars,    \* parseFile: the local `env_vars`
  envIdx,      \* parseFile: the position of the range loop over env_vars
  b,           \* UnmarshalTOML: the argument
  d,           \* UnmarshalTOML: the receiver's Duration (milliseconds)
  d0,          \* the receiver's Duration when the call began
  durErr,      \* UnmarshalTOML: the error returned
  Inputs,      \* the registry Inputs
  Outputs,     \* the registry Outputs
  calls,       \* the AddInput / AddOutput calls made so far
  found,       \* the result of the last registry lookup
  entries,     \* LoadDirectory: the tree in the order filepath.Walk visits it
  walkPos,     \* LoadDirectory: the next entry Walk hands to walkfn
  loads,       \* LoadDirectory: the names walkfn passed to LoadConfig
  walkErr,     \* LoadDirectory: the error returned
  buf,         \* ValueParser.Parse: the argument
  DataType,    \* ValueParser.DataType
  metrics,     \* ValueParser.Parse: the metrics returned
  parseErr,    \* ValueParser.Parse: the error returned
  listed       \* the string ListTags returned

cfgVars == <<Tags, Agent, history, before>>
envVars == <<fileText, env, contents, env_vars, envIdx>>
durVars == <<b, d, d0, durErr>>
regVars == <<Inputs, Outputs, calls, found>>
dirVars == <<entries, walkPos, loads, walkErr>>
valVars == <<buf, DataType, metrics, parseErr>>
vars == <<pc, cfgVars, envVars, durVars, regVars, dirVars, valVars, listed>>

None == "nil"

\* What an operation of one component leaves alone: the other components.
OnlyCfg == UNCHANGED <<envVars, durVars, regVars, valVars, listed>>
OnlyEnv == UNCHANGED <<cfgVars, durVars, regVars, dirVars, valVars, listed>>
OnlyDur == UNCHANGED <<cfgVars, envVars, regVars, dirVars, valVars, listed>>
OnlyReg == UNCHANGED <<cfgVars, envVars, durVars, dirVars, valVars, listed>>
OnlyVal == UNCHANGED <<cfgVars, envVars, durVars, regVars, dirVars, listed>>
OnlyTags == UNCHANGED <<cfgVars, envVars, durVars, regVars, dirVars, valVars>>

(***************************************************************************)
(* Bounds of the model.                                                    *)
(***************************************************************************)
MaxText == 5
MaxBomText == 2
MaxTok == 4
MaxCalls == 3
MaxBuf == 4
MaxLoads == 2
MaxEntries == 3

(***************************************************************************)
(* Helpers on byte strings.                                                *)
(***************************************************************************)
SeqsUpTo(S, n) == UNION {[1..k -> S] : k \in 0..n}

Range(s) == {s[i] : i \in 1..Len(s)}

\* bytes.Index: the first position where old occurs in s, 0 when it does not.
Index(s, old) ==
  LET hits == {i \in 1..(Len(s) - Len(old) + 1) : SubSeq(s, i, i + Len(old) - 1) = old}
  IN IF hits = {} THEN 0 ELSE CHOOSE i \in hits : \A j \in hits : i <= j

\* bytes.Replace(s, old, new, 1): the first occurrence of old replaced.
Replace1(s, old, new) ==
  LET i == Index(s, old)
  IN IF i = 0 THEN s
     ELSE SubSeq(s, 1, i - 1) \o new \o SubSeq(s, i + Len(old), Len(s))

HasPrefix(s, p) == Len(s) >= Len(p) /\ SubSeq(s, 1, Len(p)) = p

(***************************************************************************)
(* The Config Object as NewConfig leaves it.                               *)
(***************************************************************************)
Second == 1000

DefaultInterval == 10 * Second

EmptyMap == [k \in {} |-> None]

NewConfig ==
  /\ Tags = EmptyMap
  /\ Agent = [Interval |-> DefaultInterval, Hostname |-> <<>>]

(***************************************************************************)
(* parseFile: environment substitution.                                    *)
(***************************************************************************)
BOM == "BOM"    \* stands for the three bytes EF BB BF

\* The word characters (\w) among the characters of the model.
WordChars == {"A", "B", "x"}

TextChars == {"$", "A", "B", " "}

EnvNames == {<<"A">>, <<"A", "B">>, <<"B">>}

EnvValues == {<<"x">>, <<"$", "B">>, <<"\"">>}

Texts == SeqsUpTo(TextChars, MaxText)

Environments == UNION {[S -> EnvValues] : S \in SUBSET EnvNames}

trimBOM(f) == IF HasPrefix(f, <<BOM>>) THEN Tail(f) ELSE f

RECURSIVE escapeEnv(_)
escapeEnv(value) ==
  IF value = <<>> THEN <<>>
  ELSE (CASE Head(value) = "\"" -> <<"\\", "\"">>
          [] Head(value) = "\\" -> <<"\\", "\\">>
          [] OTHER -> <<Head(value)>>) \o escapeEnv(Tail(value))

\* The first position at or after i that holds no word character.
RECURSIVE WordRunEnd(_, _)
WordRunEnd(s, i) ==
  IF i <= Len(s) /\ s[i] \in WordChars THEN WordRunEnd(s, i + 1) ELSE i

\* envVarRe.FindAll(s, -1) from position i on: leftmost, longest, not overlapping.
RECURSIVE FindAllFrom(_, _)
FindAllFrom(s, i) ==
  IF i > Len(s) THEN <<>>
  ELSE IF s[i] = "$" /\ i < Len(s) /\ s[i + 1] \in WordChars
       THEN LET e == WordRunEnd(s, i + 1)
            IN <<SubSeq(s, i, e - 1)>> \o FindAllFrom(s, e)
       ELSE FindAllFrom(s, i + 1)

envVarReFindAll(s) == FindAllFrom(s, 1)

LookupEnv(name) == name \in DOMAIN env

IdleEnv ==
  /\ fileText = <<>> /\ env = EmptyMap /\ contents = <<>>
  /\ env_vars = <<>> /\ envIdx = 0

InitEnv ==
  /\ fileText \in Texts \cup {<<BOM>> \o t : t \in SeqsUpTo(TextChars, MaxBomText)}
  /\ env \in Environments
  /\ contents = <<>> /\ env_vars = <<>> /\ envIdx = 0

\* lines 400-407: read the file, trim the BOM, find the tokens
ReadFile ==
  /\ pc = "parseFile"
  /\ contents' = trimBOM(fileText)
  /\ env_vars' = envVarReFindAll(trimBOM(fileText))
  /\ envIdx' = 1
  /\ pc' = "subst"
  /\ UNCHANGED <<fileText, env>>
  /\ OnlyEnv

\* lines 408-414: one iteration of the range loop
SubstStep ==
  /\ pc = "subst"
  /\ envIdx <= Len(env_vars)
  /\ LET env_var == env_vars[envIdx]
         name == Tail(env_var)
     IN contents' = IF LookupEnv(name)
                    THEN Replace1(contents, env_var, escapeEnv(env[name]))
                    ELSE contents
  /\ envIdx' = envIdx + 1
  /\ UNCHANGED <<pc, fileText, env, env_vars>>
  /\ OnlyEnv

\* line 416: the substituted bytes go to the TOML parser
ParseContents ==
  /\ pc = "subst"
  /\ envIdx > Len(env_vars)
  /\ pc' = "parsed"
  /\ UNCHANGED envVars
  /\ OnlyEnv

(***************************************************************************)
(* Duration.UnmarshalTOML and the library parsers it calls.                *)
(***************************************************************************)
Digits == <<"0", "1", "2", "3", "4", "5", "6", "7", "8", "9">>

IsDigit(c) == c \in Range(Digits)

DigitVal(c) == (CHOOSE i \in 1..10 : Digits[i] = c) - 1

RECURSIVE DecValue(_)
DecValue(s) ==
  IF s = <<>> THEN 0
  ELSE 10 * DecValue(SubSeq(s, 1, Len(s) - 1)) + DigitVal(s[Len(s)])

RECURSIVE Pow10(_)
Pow10(n) == IF n = 0 THEN 1 ELSE 10 * Pow10(n - 1)

\* The first position at or after i that holds no digit.
RECURSIVE DigitRunEnd(_, _)
DigitRunEnd(s, i) ==
  IF i <= Len(s) /\ IsDigit(s[i]) THEN DigitRunEnd(s, i + 1) ELSE i

\* The first position at or after i that holds a digit or a dot.
RECURSIVE UnitEnd(_, _)
UnitEnd(s, i) ==
  IF i <= Len(s) /\ ~(s[i] = "." \/ IsDigit(s[i])) THEN UnitEnd(s, i + 1) ELSE i

Fail == [ok |-> FALSE, v |-> 0]

\* time's unitMap, in milliseconds, for the units a millisecond can count.
unitMap ==
  [u \in {<<"m", "s">>, <<"s">>, <<"m">>, <<"h">>} |->
     CASE u = <<"m", "s">> -> 1
       [] u = <<"s">> -> Second
       [] u = <<"m">> -> 60 * Second
       [] u = <<"h">> -> 3600 * Second]

\* The loop of time.ParseDuration: ([0-9]*(\.[0-9]*)?[a-z]+)+
RECURSIVE ParseGroups(_)
ParseGroups(s) ==
  IF s = <<>> THEN [ok |-> TRUE, v |-> 0]
  ELSE IF ~(s[1] = "." \/ IsDigit(s[1])) THEN Fail
  ELSE LET e1 == DigitRunEnd(s, 1)
           ip == SubSeq(s, 1, e1 - 1)
           hasDot == e1 <= Len(s) /\ s[e1] = "."
           f0 == IF hasDot THEN e1 + 1 ELSE e1
           e2 == IF hasDot THEN DigitRunEnd(s, f0) ELSE e1
           fp == SubSeq(s, f0, e2 - 1)
           e3 == UnitEnd(s, e2)
           u == SubSeq(s, e2, e3 - 1)
       IN IF ip = <<>> /\ fp = <<>> THEN Fail
          ELSE IF e3 = e2 THEN Fail
          ELSE IF u \notin DOMAIN unitMap THEN Fail
          ELSE LET rest == ParseGroups(SubSeq(s, e3, Len(s)))
                   v == DecValue(ip) * unitMap[u]
                        + (DecValue(fp) * unitMap[u]) \div Pow10(Len(fp))
               IN IF rest.ok THEN [ok |-> TRUE, v |-> v + rest.v] ELSE Fail

\* time.ParseDuration: the value is 0 whenever it returns an error.
ParseDuration(s) ==
  LET signed == s # <<>> /\ s[1] \in {"-", "+"}
      neg == s # <<>> /\ s[1] = "-"
      r == IF signed THEN Tail(s) ELSE s
  IN IF r = <<"0">> THEN [ok |-> TRUE, v |-> 0]
     ELSE IF r = <<>> THEN Fail
     ELSE LET g == ParseGroups(r)
          IN IF g.ok THEN [ok |-> TRUE, v |-> IF neg THEN 0 - g.v ELSE g.v] ELSE Fail

\* strconv.Unquote on a string without backslash, backquote or newline.
Unquote(s) ==
  LET n == Len(s)
      inner == SubSeq(s, 2, n - 1)
  IN IF n < 2 \/ s[1] # s[n] THEN [ok |-> FALSE, s |-> <<>>]
     ELSE IF s[1] = "\"" /\ "\"" \notin Range(inner) THEN [ok |-> TRUE, s |-> inner]
     ELSE IF s[1] = "'" /\ Len(inner) = 1 /\ inner[1] # "'" THEN [ok |-> TRUE, s |-> inner]
     ELSE [ok |-> FALSE, s |-> <<>>]

\* strconv.ParseInt(s, 10, 64)
ParseInt(s) ==
  LET signed == s # <<>> /\ s[1] \in {"-", "+"}
      neg == s # <<>> /\ s[1] = "-"
      r == IF signed THEN Tail(s) ELSE s
  IN IF r # <<>> /\ \A i \in 1..Len(r) : IsDigit(r[i])
     THEN [ok |-> TRUE, v |-> IF neg THEN 0 - DecValue(r) ELSE DecValue(r)]
     ELSE Fail

\* strconv.ParseFloat(s, 64) on decimal text without exponent: sign, integer
\* digits ip, fraction digits fp.
ParseFloat(s) ==
  LET signed == s # <<>> /\ s[1] \in {"-", "+"}
      neg == s # <<>> /\ s[1] = "-"
      r == IF signed THEN Tail(s) ELSE s
      e1 == DigitRunEnd(r, 1)
      hasDot == e1 <= Len(r) /\ r[e1] = "."
      e2 == IF hasDot THEN DigitRunEnd(r, e1 + 1) ELSE e1
      ip == SubSeq(r, 1, e1 - 1)
      fp == IF hasDot THEN SubSeq(r, e1 + 1, e2 - 1) ELSE <<>>
  IN IF e2 = Len(r) + 1 /\ (ip # <<>> \/ fp # <<>>)
     THEN [ok |-> TRUE, neg |-> neg, ip |-> ip, fp |-> fp]
     ELSE [ok |-> FALSE, neg |-> FALSE, ip |-> <<>>, fp |-> <<>>]

\* time.Duration(sF): the float converted to int64, its fraction dropped.
DurationOfFloat(f) == IF f.neg THEN 0 - DecValue(f.ip) ELSE DecValue(f.ip)

\* bytes.Trim(s, `'`)
RECURSIVE TrimLeft(_, _)
TrimLeft(s, cut) ==
  IF s # <<>> /\ Head(s) \in cut THEN TrimLeft(Tail(s), cut) ELSE s

RECURSIVE TrimRight(_, _)
TrimRight(s, cut) ==
  IF s # <<>> /\ s[Len(s)] \in cut THEN TrimRight(SubSeq(s, 1, Len(s) - 1), cut) ELSE s

Trim(s, cut) == TrimRight(TrimLeft(s, cut), cut)

\* Duration.UnmarshalTOML(raw): the receiver's new Duration and the error.
\* Every assignment `d.Duration, err = time.ParseDuration(..)` stores the
\* value returned, also when err is set.
UnmarshalTOML(raw) ==
  LET t == Trim(raw, {"'"})
      p1 == ParseDuration(t)                       \* line 494
      uq == Unquote(t)                             \* line 500
      p2 == ParseDuration(uq.s)                    \* line 501
      sI == ParseInt(t)                            \* line 508
      sF == ParseFloat(t)                          \* line 514
  IN IF p1.ok THEN [d |-> p1.v, err |-> None]
     ELSE IF uq.ok /\ Len(uq.s) > 0 /\ p2.ok THEN [d |-> p2.v, err |-> None]
     ELSE IF sI.ok THEN [d |-> Second * sI.v, err |-> None]
     ELSE IF sF.ok THEN [d |-> Second * DurationOfFloat(sF), err |-> None]
     ELSE [d |-> IF uq.ok /\ Len(uq.s) > 0 THEN p2.v ELSE p1.v, err |-> None]

DurChars == {"2", "5", ".", "-", "s", "\"", "'", "g"}

PrevDurations == {DefaultInterval, 1500}

IdleDur == b = <<>> /\ d = 0 /\ d0 = 0 /\ durErr = None

InitDur ==
  /\ b \in SeqsUpTo(DurChars, MaxTok)
  /\ d \in PrevDurations
  /\ d0 = d
  /\ durErr = None

DoUnmarshalTOML ==
  /\ pc = "UnmarshalTOML"
  /\ d' = UnmarshalTOML(b).d
  /\ durErr' = UnmarshalTOML(b).err
  /\ pc' = "unmarshalled"
  /\ UNCHANGED <<b, d0>>
  /\ OnlyDur

(***************************************************************************)
(* The plugin registries.                                                  *)
(***************************************************************************)
PluginNames == {"cpu", "disk"}

Creators == {"creatorA", "creatorB"}

\* Go's m[k] = v on a map
MapSetKeepFirst(m, k, v) ==
  [x \in DOMAIN m \cup {k} |-> IF x \in DOMAIN m THEN m[x] ELSE v]

MapSet(m, k, v) ==
  [x \in DOMAIN m \cup {k} |-> IF x = k THEN v ELSE m[x]]

\* Go's v, ok := m[k]
MapGet(m, k) ==
  IF k \in DOMAIN m THEN [ok |-> TRUE, v |-> m[k]] ELSE [ok |-> FALSE, v |-> None]

IdleReg ==
  /\ Inputs = EmptyMap /\ Outputs = EmptyMap /\ calls = <<>>
  /\ found = [kind |-> None, name |-> None, ok |-> FALSE, v |-> None, err |-> None]

AddInput(name, creator) ==
  /\ pc = "registry"
  /\ Len(calls) < MaxCalls
  /\ Inputs' = MapSet(Inputs, name, creator)
  /\ calls' = Append(calls, [kind |-> "input", name |-> name, creator |-> creator])
  /\ UNCHANGED <<pc, Outputs, found>>
  /\ OnlyReg

AddOutput(name, creator) ==
  /\ pc = "registry"
  /\ Len(calls) < MaxCalls
  /\ Outputs' = MapSet(Outputs, name, creator)
  /\ calls' = Append(calls, [kind |-> "output", name |-> name, creator |-> creator])
  /\ UNCHANGED <<pc, Inputs, found>>
  /\ OnlyReg

\* The lookup of PrintInputConfig; printConfig only prints.
PrintInputConfig(name) ==
  /\ pc = "registry"
  /\ found' = [kind |-> "input", name |-> name,
               ok |-> MapGet(Inputs, name).ok, v |-> MapGet(Inputs, name).v,
               err |-> IF MapGet(Inputs, name).ok THEN None ELSE "Input not found"]
  /\ UNCHANGED <<pc, Inputs, Outputs, calls>>
  /\ OnlyReg

PrintOutputConfig(name) ==
  /\ pc = "registry"
  /\ found' = [kind |-> "output", name |-> name,
               ok |-> MapGet(Outputs, name).ok, v |-> MapGet(Outputs, name).v,
               err |-> IF MapGet(Outputs, name).ok THEN None ELSE "Output not found"]
  /\ UNCHANGED <<pc, Inputs, Outputs, calls>>
  /\ OnlyReg

(***************************************************************************)
(* ValueParser.Parse.                                                      *)
(***************************************************************************)
NUL == "NUL"

\* The white space (unicode.IsSpace) among the characters of the model.
WhiteSpace == {" "}

BufChars == {" ", NUL, "1", "t"}

DataTypes == {"", "int", "float", "str", "string", "bool"}

MetricName == "sensor"

TrimSpace(s) == Trim(s, WhiteSpace)

\* The first position at or after i that holds white space.
RECURSIVE FieldEnd(_, _)
FieldEnd(s, i) ==
  IF i <= Len(s) /\ s[i] \notin WhiteSpace THEN FieldEnd(s, i + 1) ELSE i

\* strings.Fields
RECURSIVE Fields(_)
Fields(s) ==
  LET t == TrimLeft(s, WhiteSpace)
      e == FieldEnd(t, 1)
  IN IF t = <<>> THEN <<>>
     ELSE <<SubSeq(t, 1, e - 1)>> \o Fields(SubSeq(t, e, Len(t)))

\* strconv.ParseBool
ParseBool(s) ==
  IF s \in {<<"1">>, <<"t">>, <<"T">>, <<"t", "r", "u", "e">>,
            <<"T", "R", "U", "E">>, <<"T", "r", "u", "e">>}
  THEN [ok |-> TRUE, v |-> TRUE]
  ELSE IF s \in {<<"0">>, <<"f">>, <<"F">>, <<"f", "a", "l", "s", "e">>,
                 <<"F", "A", "L", "S", "E">>, <<"F", "a", "l", "s", "e">>}
  THEN [ok |-> TRUE, v |-> FALSE]
  ELSE [ok |-> FALSE, v |-> FALSE]

\* The switch on v.DataType: the value and whether err is set.
Convert(dt, vStr) ==
  CASE dt \in {"", "int", "integer"} ->
         [err |-> ~ParseInt(vStr).ok, value |-> [type |-> "int", v |-> ParseInt(vStr).v]]
    [] dt \in {"float", "long"} ->
         [err |-> ~ParseFloat(vStr).ok,
          value |-> [type |-> "float", neg |-> ParseFloat(vStr).neg,
                     ip |-> ParseFloat(vStr).ip, fp |-> ParseFloat(vStr).fp]]
    [] dt \in {"str", "string"} ->
         [err |-> FALSE, value |-> [type |-> "string", v |-> vStr]]
    [] dt \in {"bool", "boolean"} ->
         [err |-> ~ParseBool(vStr).ok, value |-> [type |-> "bool", v |-> ParseBool(vStr).v]]
    [] OTHER -> [err |-> FALSE, value |-> [type |-> "nil"]]

\* The metric constructor: one metric holding the name, the tags and the
\* fields (the capture time is left out).
New(name, tags, fields) ==
  [metric |-> [name |-> name, tags |-> tags, fields |-> fields], err |-> None]

Parse(dt, raw) ==
  LET trimmed == TrimSpace(Trim(raw, {NUL}))
      values == Fields(trimmed)
      vStr == IF dt # "string" THEN values[Len(values)] ELSE trimmed
      conv == Convert(dt, vStr)
      made == New(MetricName, EmptyMap, [value |-> conv.value])
  IN IF dt # "string" /\ Len(values) < 1 THEN [metrics |-> <<>>, err |-> None]
     ELSE IF conv.err THEN [metrics |-> <<>>, err |-> "conversion failed"]
     ELSE IF made.err # None THEN [metrics |-> <<>>, err |-> made.err]
     ELSE [metrics |-> <<made.metric>>, err |-> None]

IdleVal == buf = <<>> /\ DataType = "" /\ metrics = <<>> /\ parseErr = None

InitVal ==
  /\ buf \in SeqsUpTo(BufChars, MaxBuf)
  /\ DataType \in DataTypes
  /\ metrics = <<>>
  /\ parseErr = None

DoParse ==
  /\ pc = "Parse"
  /\ metrics' = Parse(DataType, buf).metrics
  /\ parseErr' = Parse(DataType, buf).err
  /\ pc' = "returned"
  /\ UNCHANGED <<buf, DataType>>
  /\ OnlyVal

(***************************************************************************)
(* Config.ListTags.                                                        *)
(***************************************************************************)
\* The characters of tag keys and values in the order of their byte values.
AsciiOrder ==
  <<" ", "-", "1", "2", "=", "a", "b", "c", "d", "e", "k", "r", "s", "t", "u">>

Byte(c) == CHOOSE i \in 1..Len(AsciiOrder) : AsciiOrder[i] = c

\* Go's s < t on strings: byte by byte
RECURSIVE StrLess(_, _)
StrLess(s, t) ==
  IF t = <<>> THEN FALSE
  ELSE IF s = <<>> THEN TRUE
  ELSE IF Byte(Head(s)) # Byte(Head(t)) THEN Byte(Head(s)) < Byte(Head(t))
  ELSE StrLess(Tail(s), Tail(t))

RECURSIVE InsertSorted(_, _)
InsertSorted(x, sorted) ==
  IF sorted = <<>> THEN <<x>>
  ELSE IF StrLess(Head(sorted), x) THEN <<Head(sorted)>> \o InsertSorted(x, Tail(sorted))
  ELSE <<x>> \o sorted

\* sort.Strings
RECURSIVE SortStrings(_)
SortStrings(list) ==
  IF list = <<>> THEN <<>> ELSE InsertSorted(Head(list), SortStrings(Tail(list)))

\* strings.Join
RECURSIVE Join(_, _)
Join(list, sep) ==
  IF list = <<>> THEN <<>>
  ELSE IF Len(list) = 1 THEN Head(list)
  ELSE Head(list) \o sep \o Join(Tail(list), sep)

\* The orders in which a range loop may visit the keys of a map.
IterationOrders(m) ==
  {o \in [1..Cardinality(DOMAIN m) -> DOMAIN m] :
     \A i, j \in 1..Cardinality(DOMAIN m) : i # j => o[i] # o[j]}

\* fmt.Sprintf("%s=%s", k, v)
FormatTag(k, v) == k \o <<"=">> \o v

ListTags(order) ==
  Join(SortStrings([i \in 1..Len(order) |-> FormatTag(order[i], Tags[order[i]])]), <<" ">>)

ListKeys == {<<"a">>, <<"a", "-", "b">>, <<"a", "b">>, <<"b">>}

ListValues == {<<"1">>, <<"2">>}

DoListTags ==
  /\ pc = "ListTags"
  /\ \E order \in IterationOrders(Tags) : listed' = ListTags(order)
  /\ pc' = "listed"
  /\ OnlyTags

(***************************************************************************)
(* Config.LoadConfig.  A file is what parseFile makes of it: unreadable,   *)
(* malformed, or a table whose entries "tags", "global_tags" and "agent"   *)
(* are absent, a plain value, or a sub-table.                              *)
(***************************************************************************)
Absent == [kind |-> "absent", fields |-> EmptyMap]

NotATable == [kind |-> "value", fields |-> EmptyMap]

Table(f) == [kind |-> "table", fields |-> f]

Str(x) == [type |-> "string", s |-> x]

Num(x) == [type |-> "integer", s |-> x]

DC == <<"d", "c">>

RACK == <<"r", "a", "c", "k">>

TagsTables ==
  {Absent, NotATable,
   Table(DC :> Str(<<"u", "s">>) @@ RACK :> Str(<<"1", "a">>)),
   Table(DC :> Str(<<"e", "u">>) @@ RACK :> Num(<<"7">>))}

GlobalTables ==
  {Absent, NotATable, Table(DC :> Str(<<"e", "u">>))}

\* The value of interval is the source text of the TOML value.
AgentTables ==
  {Absent, NotATable,
   Table("interval" :> Str(<<"\"", "5", "s", "\"">>)),
   Table("interval" :> Num(<<"2">>) @@ "hostname" :> Num(<<"7">>))}

Unreadable ==
  [status |-> "unreadable", tags |-> Absent, global_tags |-> Absent, agent |-> Absent]

Malformed ==
  [status |-> "malformed", tags |-> Absent, global_tags |-> Absent, agent |-> Absent]

NoFile ==
  [status |-> "none", tags |-> Absent, global_tags |-> Absent, agent |-> Absent]

Files ==
  {[status |-> "ok", tags |-> t, global_tags |-> g, agent |-> a] :
     t \in TagsTables, g \in GlobalTables, a \in AgentTables}
  \cup {Unreadable, Malformed}

DefaultPaths == <<"envfile", "homefile", "etcfile">>

getDefaultConfigPath(exists) ==
  LET hits == {i \in 1..Len(DefaultPaths) : DefaultPaths[i] \in exists}
  IN IF hits = {} THEN [path |-> "", err |-> "No config file specified"]
     ELSE [path |-> DefaultPaths[CHOOSE i \in hits : \A j \in hits : i <= j],
           err |-> None]

\* What parseFile returns for a file: ioutil.ReadFile's error, toml.Parse's
\* error, or the table.
parseFile(file) ==
  IF file.status = "ok" THEN [tbl |-> file, err |-> None]
  ELSE [tbl |-> file, err |-> file.status]

\* toml.UnmarshalTable into map[string]string: every entry is stored under
\* its key; an entry that is no string stops it with an error, the entries
\* visited before it stored.
UnmarshalTableMap(val, tags) ==
  LET f == val.fields
      strKeys == {k \in DOMAIN f : f[k].type = "string"}
      Stored(S) == [k \in DOMAIN tags \cup S |-> IF k \in S THEN f[k].s ELSE tags[k]]
  IN IF strKeys = DOMAIN f THEN {[m |-> Stored(strKeys), err |-> None]}
     ELSE {[m |-> Stored(S), err |-> "unmarshal"] : S \in SUBSET strKeys}

\* toml.UnmarshalTable into *AgentConfig: interval goes through
\* Duration.UnmarshalTOML, hostname must be a string.
UnmarshalTableAgent(val, agent) ==
  LET f == val.fields
      withInterval == IF "interval" \in DOMAIN f
                      THEN [agent EXCEPT !.Interval = UnmarshalTOML(f["interval"].s).d]
                      ELSE agent
  IN IF "hostname" \in DOMAIN f /\ f["hostname"].type # "string"
     THEN {[a |-> agent, err |-> "unmarshal"], [a |-> withInterval, err |-> "unmarshal"]}
     ELSE IF "hostname" \in DOMAIN f
     THEN {[a |-> [withInterval EXCEPT !.Hostname = f["hostname"].s], err |-> None]}
     ELSE {[a |-> withInterval, err |-> None]}

TagTableNamesSwapped == <<"global_tags", "tags">>

TagTableNames == <<"tags", "global_tags">>

\* lines 302-313: the loop over the tags tables
RECURSIVE LoadTagTables(_, _, _)
LoadTagTables(names, tbl, tags) ==
  IF names = <<>> THEN {[Tags |-> tags, err |-> None]}
  ELSE LET val == tbl[Head(names)]
       IN IF val.kind = "absent" THEN LoadTagTables(Tail(names), tbl, tags)
          ELSE IF val.kind # "table" THEN {[Tags |-> tags, err |-> "invalid configuration"]}
          ELSE UNION {IF o.err # None THEN {[Tags |-> o.m, err |-> "Error parsing"]}
                      ELSE LoadTagTables(Tail(names), tbl, o.m) :
                      o \in UnmarshalTableMap(val, tags)}

\* lines 316-325: the agent table
LoadAgentTable(tbl, agent) ==
  LET val == tbl["agent"]
  IN IF val.kind = "absent" THEN {[Agent |-> agent, err |-> None]}
     ELSE IF val.kind # "table" THEN {[Agent |-> agent, err |-> "invalid configuration"]}
     ELSE {[Agent |-> o.a, err |-> IF o.err # None THEN "Error parsing" ELSE None] :
           o \in UnmarshalTableAgent(val, agent)}

LoadConfigAgentFirst(path, exists, file, tags, agent) ==
  LET resolved == IF path = "" THEN getDefaultConfigPath(exists)
                  ELSE [path |-> path, err |-> None]
  IN IF resolved.err # None
     THEN {[Tags |-> tags, Agent |-> agent, err |-> resolved.err, read |-> FALSE]}
     ELSE IF parseFile(file).err # None
     THEN {[Tags |-> tags, Agent |-> agent, err |-> "Error parsing", read |-> TRUE]}
     ELSE UNION {IF a.err # None
                 THEN {[Tags |-> tags, Agent |-> a.Agent, err |-> a.err, read |-> TRUE]}
                 ELSE {[Tags |-> t.Tags, Agent |-> a.Agent, err |-> t.err, read |-> TRUE] :
                       t \in LoadTagTables(TagTableNames, parseFile(file).tbl, tags)} :
                 a \in LoadAgentTable(parseFile(file).tbl, agent)}

\* LoadConfig(path) on a Config holding tags and agent, when the default
\* paths in exists are present and the path resolved holds file: the
\* outcomes (one, unless an unmarshal fails part way).
LoadConfig(path, exists, file, tags, agent) ==
  LET resolved == IF path = "" THEN getDefaultConfigPath(exists)
                  ELSE [path |-> path, err |-> None]
  IN IF resolved.err # None
     THEN {[Tags |-> tags, Agent |-> agent, err |-> resolved.err, read |-> FALSE]}
     ELSE IF parseFile(file).err # None
     THEN {[Tags |-> tags, Agent |-> agent, err |-> "Error parsing", read |-> TRUE]}
     ELSE UNION {IF t.err # None
                 THEN {[Tags |-> t.Tags, Agent |-> agent, err |-> t.err, read |-> TRUE]}
                 ELSE {[Tags |-> t.Tags, Agent |-> a.Agent, err |-> a.err, read |-> TRUE] :
                       a \in LoadAgentTable(parseFile(file).tbl, agent)} :
                 t \in LoadTagTables(TagTableNames, parseFile(file).tbl, tags)}

IdleCfg ==
  /\ NewConfig
  /\ history = <<>>
  /\ before = [Tags |-> EmptyMap, Agent |-> [Interval |-> DefaultInterval, Hostname |-> <<>>]]

\* The effect of one LoadConfig call with outcome o on the Config Object.
Called(file, o) ==
  /\ Tags' = o.Tags
  /\ Agent' = o.Agent
  /\ history' = Append(history, [file |-> IF o.read THEN file ELSE NoFile, err |-> o.err])
  /\ before' = [Tags |-> Tags, Agent |-> Agent]

DoLoadConfig(path, exists, file) ==
  /\ pc = "LoadConfig"
  /\ Len(history) < MaxLoads
  /\ \E o \in LoadConfig(path, exists, file, Tags, Agent) : Called(file, o)
  /\ UNCHANGED pc
  /\ OnlyCfg
  /\ UNCHANGED dirVars

(***************************************************************************)
(* Config.LoadDirectory.  filepath.Walk hands the entries of the tree to   *)
(* walkfn one by one, in lexical order, and stops at the first error       *)
(* walkfn returns.                                                         *)
(***************************************************************************)
ConfSuffix == <<".", "c", "o", "n", "f">>

EntryNames ==
  {ConfSuffix, <<"a">> \o ConfSuffix, <<"n", ".", "t", "x", "t">>, <<"c", "o", "n", "f">>}

GoodFile ==
  [status |-> "ok", tags |-> Absent, global_tags |-> Table(DC :> Str(<<"e", "u">>)),
   agent |-> Absent]

DirFiles == {GoodFile, Malformed}

\* info = FALSE: Walk could not stat the entry and hands walkfn a nil info.
DirEntries ==
  {[name |-> <<"x">>, info |-> FALSE, isDir |-> FALSE, file |-> NoFile],
   [name |-> <<"d">> \o ConfSuffix, info |-> TRUE, isDir |-> TRUE, file |-> NoFile]}
  \cup {[name |-> n, info |-> TRUE, isDir |-> FALSE, file |-> f] :
          n \in EntryNames, f \in DirFiles}

IdleDir == entries = <<>> /\ walkPos = 0 /\ loads = <<>> /\ walkErr = None

InitDir ==
  /\ entries \in UNION {[1..k -> DirEntries] : k \in 1..MaxEntries}
  /\ walkPos = 1
  /\ loads = <<>>
  /\ walkErr = None

\* line 252: the test on the name
SkippedByName(name) ==
  IF Len(name) < 6 THEN TRUE ELSE SubSeq(name, Len(name) - 4, Len(name)) # ConfSuffix

\* walkfn on an entry it returns nil for without loading
WalkFnSkip ==
  /\ pc = "walk"
  /\ walkPos <= Len(entries)
  /\ LET e == entries[walkPos]
     IN ~e.info \/ e.isDir \/ SkippedByName(e.name)
  /\ walkPos' = walkPos + 1
  /\ UNCHANGED <<pc, cfgVars, entries, loads, walkErr>>
  /\ OnlyCfg

\* walkfn on an entry it loads
WalkFnLoad ==
  /\ pc = "walk"
  /\ walkPos <= Len(entries)
  /\ LET e == entries[walkPos]
     IN /\ e.info /\ ~e.isDir /\ ~SkippedByName(e.name)
        /\ \E o \in LoadConfig(e.name, {}, e.file, Tags, Agent) :
             /\ Called(e.file, o)
             /\ loads' = Append(loads, e.name)
             /\ walkErr' = o.err
             /\ pc' = IF o.err # None THEN "walked" ELSE "walk"
  /\ walkPos' = walkPos + 1
  /\ UNCHANGED entries
  /\ OnlyCfg

\* Walk has visited every entry
WalkDone ==
  /\ pc = "walk"
  /\ walkPos > Len(entries)
  /\ pc' = "walked"
  /\ UNCHANGED <<cfgVars, dirVars>>
  /\ OnlyCfg

(***************************************************************************)
(* The specifications: one per component, the others at rest.              *)
(***************************************************************************)
Init ==
  /\ pc = "LoadConfig"
  /\ IdleCfg /\ IdleEnv /\ IdleDur /\ IdleReg /\ IdleDir /\ IdleVal
  /\ listed = <<>>

\* LoadConfig with a path given, or with "" and any set of default paths present.
Next ==
  \/ \E file \in Files : DoLoadConfig("telegraf.conf", {}, file)
  \/ \E exists \in SUBSET Range(DefaultPaths), file \in Files : DoLoadConfig("", exists, file)

Spec == Init /\ [][Next]_vars

InitE ==
  /\ pc = "parseFile"
  /\ IdleCfg /\ InitEnv /\ IdleDur /\ IdleReg /\ IdleDir /\ IdleVal
  /\ listed = <<>>

NextE == ReadFile \/ SubstStep \/ ParseContents

SpecEnv == InitE /\ [][NextE]_vars

InitD ==
  /\ pc = "UnmarshalTOML"
  /\ IdleCfg /\ IdleEnv /\ InitDur /\ IdleReg /\ IdleDir /\ IdleVal
  /\ listed = <<>>

NextD == DoUnmarshalTOML

SpecDur == InitD /\ [][NextD]_vars

InitR ==
  /\ pc = "registry"
  /\ IdleCfg /\ IdleEnv /\ IdleDur /\ IdleReg /\ IdleDir /\ IdleVal
  /\ listed = <<>>

NextR ==
  \/ \E name \in PluginNames, creator \in Creators : AddInput(name, creator)
  \/ \E name \in PluginNames, creator \in Creators : AddOutput(name, creator)
  \/ \E name \in PluginNames : PrintInputConfig(name)
  \/ \E name \in PluginNames : PrintOutputConfig(name)

SpecReg == InitR /\ [][NextR]_vars

InitW ==
  /\ pc = "walk"
  /\ IdleCfg /\ IdleEnv /\ IdleDur /\ IdleReg /\ InitDir /\ IdleVal
  /\ listed = <<>>

NextW == WalkFnSkip \/ WalkFnLoad \/ WalkDone

SpecDir == InitW /\ [][NextW]_vars

InitV ==
  /\ pc = "Parse"
  /\ IdleCfg /\ IdleEnv /\ IdleDur /\ IdleReg /\ IdleDir /\ InitVal
  /\ listed = <<>>

NextV == DoParse

SpecValue == InitV /\ [][NextV]_vars

InitT ==
  /\ pc = "ListTags"
  /\ Tags \in UNION {[S -> ListValues] : S \in SUBSET ListKeys}
  /\ Agent = [Interval |-> DefaultInterval, Hostname |-> <<>>]
  /\ history = <<>>
  /\ before = [Tags |-> EmptyMap, Agent |-> [Interval |-> DefaultInterval, Hostname |-> <<>>]]
  /\ IdleEnv /\ IdleDur /\ IdleReg /\ IdleDir /\ IdleVal
  /\ listed = <<>>

NextT == DoListTags

SpecTags == InitT /\ [][NextT]_vars

(***************************************************************************)
(* Properties of the operations.                                           *)
(***************************************************************************)

\* The text with every token replaced where it stands: the escaped value of
\* its variable when that is set, the token itself when it is not.
RECURSIVE SubstByPosition(_, _)
SubstByPosition(s, i) ==
  IF i > Len(s) THEN <<>>
  ELSE IF s[i] = "$" /\ i < Len(s) /\ s[i + 1] \in WordChars
       THEN LET e == WordRunEnd(s, i + 1)
                tok == SubSeq(s, i, e - 1)
            IN (IF LookupEnv(Tail(tok)) THEN escapeEnv(env[Tail(tok)]) ELSE tok)
               \o SubstByPosition(s, e)
       ELSE <<s[i]>> \o SubstByPosition(s, i + 1)

\* C1: after parseFile's substitution loop every token $NAME whose variable
\* is set has been replaced by the escaped value, and every token whose
\* variable is unset still stands verbatim at its position, also when one
\* token is a prefix of another and when a value holds tokens itself.
EveryTokenSubstitutedInPlace ==
  pc = "parsed" => contents = SubstByPosition(trimBOM(fileText), 1)

\* Every step of the cascade fails on the token.
AllStepsFail(raw) ==
  LET t == Trim(raw, {"'"})
  IN /\ ~ParseDuration(t).ok
     /\ ~(Unquote(t).ok /\ ParseDuration(Unquote(t).s).ok)
     /\ ~ParseInt(t).ok
     /\ ~ParseFloat(t).ok

\* C2: when all four steps of the cascade fail, UnmarshalTOML returns no
\* error and leaves the duration at exactly its previous value.
UnparsedDurationKeepsValue ==
  (pc = "unmarshalled" /\ AllStepsFail(b)) => (durErr = None /\ d = d0)

\* The float as seconds, in milliseconds, its sign kept.
FloatMillis(f) ==
  LET ms == DecValue(f.ip) * Second + (DecValue(f.fp) * Second) \div Pow10(Len(f.fp))
  IN IF f.neg THEN 0 - ms ELSE ms

\* C3: the cascade stops at the first step that succeeds; an integer token
\* n gives n whole seconds, and a token that reaches step 4 gives its
\* possibly fractional number of seconds (2.5 gives 2500 milliseconds).
FloatTokenGivesFractionalSeconds ==
  pc = "unmarshalled" =>
    LET t == Trim(b, {"'"})
        step1 == ParseDuration(t).ok
        step2 == Unquote(t).ok /\ ParseDuration(Unquote(t).s).ok
        step3 == ParseInt(t).ok
        step4 == ParseFloat(t).ok
    IN /\ step1 => d = ParseDuration(t).v
       /\ (~step1 /\ step2) => d = ParseDuration(Unquote(t).s).v
       /\ (~step1 /\ ~step2 /\ step3) => d = ParseInt(t).v * Second
       /\ (~step1 /\ ~step2 /\ ~step3 /\ step4) => d = FloatMillis(ParseFloat(t))

\* The position in calls of the last registration of name in a registry,
\* 0 when there is none.
LastCall(kind, name) ==
  LET hits == {i \in 1..Len(calls) : calls[i].kind = kind /\ calls[i].name = name}
  IN IF hits = {} THEN 0 ELSE CHOOSE i \in hits : \A j \in hits : j <= i

\* C4: a lookup of a name in the input registry finds an entry iff AddInput
\* was called with it, and finds the factory of the most recent such call;
\* the same holds of the output registry and AddOutput; neither registry is
\* changed by a call on the other, and no entry is ever removed.
RegistryHoldsLastRegistration ==
  \A n \in PluginNames :
    /\ MapGet(Inputs, n).ok <=> LastCall("input", n) # 0
    /\ MapGet(Inputs, n).ok => MapGet(Inputs, n).v = calls[LastCall("input", n)].creator
    /\ MapGet(Outputs, n).ok <=> LastCall("output", n) # 0
    /\ MapGet(Outputs, n).ok => MapGet(Outputs, n).v = calls[LastCall("output", n)].creator

\* A name registered as an input, then as an output with the same factory,
\* then as an input again with another factory.
RegistryOverwritten ==
  \E i, j, k \in 1..Len(calls) :
    /\ i < j /\ j < k
    /\ calls[i].kind = "input" /\ calls[k].kind = "input" /\ calls[j].kind = "output"
    /\ calls[i].name = calls[k].name /\ calls[j].name = calls[i].name
    /\ calls[i].creator # calls[k].creator
    /\ calls[j].creator = calls[i].creator

\* s ends in p, whatever the length of s.
HasSuffix(s, p) == Len(s) >= Len(p) /\ SubSeq(s, Len(s) - Len(p) + 1, Len(s)) = p

\* The entries LoadDirectory is said to load: the files with info whose
\* name ends in ".conf".
IsConfFile(e) == e.info /\ ~e.isDir /\ HasSuffix(e.name, ConfSuffix)

\* The names of the conf files from entry i on, up to and including the
\* first whose load fails.
RECURSIVE ConfLoadsFrom(_)
ConfLoadsFrom(i) ==
  IF i > Len(entries) THEN <<>>
  ELSE IF ~IsConfFile(entries[i]) THEN ConfLoadsFrom(i + 1)
  ELSE IF entries[i].file.status # "ok" THEN <<entries[i].name>>
  ELSE <<entries[i].name>> \o ConfLoadsFrom(i + 1)

\* C5: LoadDirectory calls LoadConfig on exactly the non-directory files
\* whose name ends in ".conf" (a file named ".conf" too), in traversal
\* order, up to the first call that returns an error, and returns that
\* error; other entries are never loaded and cause no error.
DirectoryLoadsEveryConfFile ==
  pc = "walked" =>
    /\ loads = ConfLoadsFrom(1)
    /\ walkErr # None <=>
         \E i \in 1..Len(entries) : IsConfFile(entries[i]) /\ entries[i].file.status # "ok"

\* C6: Parse never returns more than one metric, and a buffer of white
\* space and NUL bytes only, in any arrangement, gives an empty sequence
\* and no error, whatever the declared type.
BlankBufferYieldsNoMetric ==
  pc = "returned" =>
    /\ Len(metrics) <= 1
    /\ Range(buf) \subseteq WhiteSpace \cup {NUL} => (metrics = <<>> /\ parseErr = None)

\* C7: for a type the converter treats as string ("string", "str") the
\* field value is the whole trimmed text; for the other types it is the
\* conversion of the last token, and a token that does not convert gives an
\* error and no metric.
StringKeepsTextOthersLastToken ==
  pc = "returned" =>
    LET trimmed == TrimSpace(Trim(buf, {NUL}))
        toks == Fields(trimmed)
        last == toks[Len(toks)]
    IN /\ (DataType \in {"string", "str"} /\ metrics # <<>>) =>
            metrics[1].fields.value = [type |-> "string", v |-> trimmed]
       /\ (DataType \notin {"string", "str"} /\ toks # <<>>) =>
            IF Convert(DataType, last).err
            THEN parseErr # None /\ metrics = <<>>
            ELSE /\ parseErr = None
                 /\ Len(metrics) = 1
                 /\ metrics[1].fields.value = Convert(DataType, last).value

\* The keys of the tag mapping in ascending order.
KeysAscending == SortStrings(CHOOSE o \in IterationOrders(Tags) : TRUE)

\* C8: ListTags returns the key=value pairs joined by single spaces in
\* ascending order of the keys, also when a key is a prefix of another key
\* that goes on with a character below "=", whatever the iteration order.
TagsListedInKeyOrder ==
  pc = "listed" =>
    listed = Join([i \in 1..Len(KeysAscending) |->
                     FormatTag(KeysAscending[i], Tags[KeysAscending[i]])], <<" ">>)

\* What a file writes last under key k: its global_tags entry, else its
\* tags entry, else nothing.
Writes(f, k) ==
  IF f.global_tags.kind = "table" /\ k \in DOMAIN f.global_tags.fields
  THEN <<f.global_tags.fields[k].s>>
  ELSE IF f.tags.kind = "table" /\ k \in DOMAIN f.tags.fields
  THEN <<f.tags.fields[k].s>>
  ELSE <<>>

FileKeys(f) == DOMAIN f.tags.fields \cup DOMAIN f.global_tags.fields

WrittenKeys == UNION {FileKeys(history[i].file) : i \in 1..Len(history)}

LastWriter(k) ==
  CHOOSE i \in 1..Len(history) :
    /\ k \in FileKeys(history[i].file)
    /\ \A j \in 1..Len(history) : k \in FileKeys(history[j].file) => j <= i

\* C9: after successful LoadConfig calls the tag mapping holds, for each
\* key, the value of the last write of that key, the loads taken in order
\* and within a file tags before global_tags; keys a load does not mention
\* keep their value, and a file without tags tables changes nothing.
TagsHoldLastWrite ==
  (\A i \in 1..Len(history) : history[i].err = None) =>
    Tags = [k \in WrittenKeys |-> Writes(history[LastWriter(k)].file, k)[1]]

\* Two successful loads: the first file writes a key in both of its tables
\* with different values, the second writes that key again and leaves
\* another key of the first alone.
TagsOverwrittenAcrossLoads ==
  /\ Len(history) = 2
  /\ history[1].err = None /\ history[2].err = None
  /\ \E k \in FileKeys(history[1].file) :
       /\ k \in DOMAIN history[1].file.tags.fields
       /\ k \in DOMAIN history[1].file.global_tags.fields
       /\ history[1].file.tags.fields[k].s # history[1].file.global_tags.fields[k].s
  /\ FileKeys(history[2].file) # {}
  /\ FileKeys(history[1].file) \ FileKeys(history[2].file) # {}

LastLoad == history[Len(history)]

\* The entry is absent or a table of strings.
Loadable(val) ==
  \/ val.kind = "absent"
  \/ val.kind = "table" /\ \A k \in DOMAIN val.fields : val.fields[k].type = "string"

Merged(tags, val) ==
  [k \in DOMAIN tags \cup DOMAIN val.fields |->
     IF k \in DOMAIN val.fields THEN val.fields[k].s ELSE tags[k]]

\* C10 as stated: a LoadConfig call that returns an error leaves the tag
\* mapping and the agent settings as they were before the call.
FailedLoadChangesNothing ==
  (history # <<>> /\ LastLoad.err # None) =>
    (Tags = before.Tags /\ Agent = before.Agent)

\* C10 as amended: a call that fails before the tags tables are merged (no
\* path, unreadable or malformed file, a tags entry that is no table)
\* changes nothing; a call that fails later keeps the tables merged before
\* the failure, so a file with good tags tables and a bad agent entry does
\* contribute its tags; the agent settings change only when the agent
\* table's own unmarshal fails.
FailedLoadKeepsEarlierSteps ==
  (history # <<>> /\ LastLoad.err # None) =>
    LET f == LastLoad.file
    IN /\ (f.status # "ok" \/ f.tags.kind = "value") =>
            (Tags = before.Tags /\ Agent = before.Agent)
       /\ (f.status = "ok" /\ Loadable(f.tags) /\ f.global_tags.kind = "value") =>
            (Tags = Merged(before.Tags, f.tags) /\ Agent = before.Agent)
       /\ (f.status = "ok" /\ Loadable(f.tags) /\ Loadable(f.global_tags)) =>
            Tags = Merged(Merged(before.Tags, f.tags), f.global_tags)
       /\ (f.status = "ok" /\ f.agent.kind # "table") => Agent = before.Agent
       /\ (f.status = "ok" /\ ~(Loadable(f.tags) /\ Loadable(f.global_tags))) =>
            Agent = before.Agent

\* A call failed on an agent entry that is no table after it had changed
\* the tag mapping.
AgentErrorAfterTagsMerged ==
  /\ history # <<>>
  /\ LastLoad.err # None
  /\ LastLoad.file.status = "ok"
  /\ LastLoad.file.tags.kind = "table"
  /\ LastLoad.file.agent.kind = "value"
  /\ Tags # before.Tags

====
